---------------------------- MODULE Spec2Model ----------------------------
(***************************************************************************)
(* The chat server of src/server.py: the two generator handlers            *)
(* (_accept_connection, _get_message), the procedures they call, and the   *)
(* event loop that dispatches them, together with the clients that drive   *)
(* the sockets.                                                            *)
(*                                                                         *)
(* A socket is a number: the k-th connection a client makes is socket k,   *)
(* and server_socket.accept() hands the connections out in that order.     *)
(* An exception is a string; "none" is no exception.                       *)
(***************************************************************************)
EXTENDS Naturals, Sequences, FiniteSets

\* ------------------------------------------------------------- bounds
\* Connections the clients make in one run.
MaxConnections == 5
\* Chunks of bytes the clients send in one run.
MaxSends == 2
\* Clients that close or reset their connection in one run.
MaxDrops == 1
\* Handler calls event_loop makes in one run.
MaxDispatches == 9
\* Calls a direct caller of the handlers makes in one run.
MaxCalls == 7
\* calls made to the handlers where sessions follow one another
MaxReuseCalls == 9

\* The byte strings the clients send, in the order they are sent: the k-th
\* chunk sent is Bodies[k], whoever sends it; one recv returns one chunk.
Bodies == <<"hi\n", "yo\n", "ok\n", "no\n">>

Sockets == 1..MaxConnections

\* server_socket, the listening socket, among the keys of a select()
ServerSocket == 0

\* ---------------------------------------------------------- variables
VARIABLES
    _names,          \* the Name Pool: the list of free names
    users,           \* the Session Registry: the list of User records
    sent_messages,   \* the History Log: the list of Message records
    accept,          \* where the generator _accept_connection() stands
    handlers,        \* socket -> where its generator _get_message(socket) stands
    selector,        \* the sockets registered in _get_message_selector
    closed,          \* the sockets the server has closed
    accepted,        \* how many connections server_socket.accept() has returned
    pc,              \* event_loop: "running", or "crashed" once an exception has left it
    raised,          \* the exception that left the last handler call
    connected,       \* how many connections the clients have made
    peer,            \* socket -> the client's end: "open" or "gone" (closed or reset)
    inbox,           \* socket -> the chunks the client sent that recv has not returned
    wire,            \* socket -> the texts the server has written to it, in order
    sends,           \* chunks sent by the clients so far
    reuse,           \* at the last join: its socket, the name released last, the name given, the pool before
    joined_at,       \* socket of a created session -> length of the History Log at that time
    leaves,          \* socket -> how many times _disconnect_socket has run for it
    calls,           \* how many calls of the server's code have been made
    last_released    \* the name the last run of _disconnect_socket released, "" after the next join

prog == <<_names, users, sent_messages, accept, handlers, selector, closed,
          accepted, raised, inbox, wire>>
loop == <<pc>>
env == <<connected, peer, sends>>
ghost == <<reuse, joined_at, leaves, calls, last_released>>
vars == <<prog, loop, env, ghost>>

\* ------------------------------------------------------------ helpers
Range(s) == {s[i] : i \in 1..Len(s)}

Front(s) == SubSeq(s, 1, Len(s) - 1)

NoUser == [client_socket |-> 0, name |-> ""]

\* ---------------------------------------------------- module constants
\* _names as the module is loaded
InitialNames == <<"John", "Jill", "Smith", "Bella">>

count_of_clients == Len(InitialNames)

FullNotice == "Server is full. You will disconnect\n"

Greeting(name) == "Your name: " \o name \o "\n"

ChatLine(name, body) == name \o ":" \o body

\* ------------------------------------------------------ the procedures
\* The machine state a procedure works on is a record M of the program's
\* variables; M.exc is the exception in flight.  A statement that follows
\* one that raised is not executed.  M.breaks[h] is the number of I/O calls
\* on socket h that succeed in this call before the connection is found
\* broken and every later one raises (Never: it is not found broken).  Only
\* a connection the client has left breaks: a write to it succeeds until the
\* reset has come back and raises after, a read returns b"" after an orderly
\* close and raises after a reset, getpeername raises after a reset.

\* more I/O calls than one handler call makes on one socket
Never == MaxSends + 3

TheState ==
    [names |-> _names, users |-> users, sent |-> sent_messages,
     accept |-> accept, handlers |-> handlers, selector |-> selector,
     closed |-> closed, accepted |-> accepted, inbox |-> inbox,
     wire |-> wire, exc |-> "none",
     breaks |-> [h \in Sockets |-> Never]]

check_free_positions(names) == Len(names) # 0

\* the user is given the last name and the first one leaves the list
create_user_pop_first(names, client_socket) ==
    [user |-> [client_socket |-> client_socket, name |-> names[Len(names)]],
     names |-> Tail(names)]

\* names.pop(): the last name of the list leaves it
create_user(names, client_socket) ==
    [user |-> [client_socket |-> client_socket, name |-> names[Len(names)]],
     names |-> Front(names)]

\* an I/O call on client_socket raises: the server closed the socket, or the
\* connection is found broken
Raises(M, client_socket) ==
    client_socket \in M.closed \/ M.breaks[client_socket] = 0

\* one I/O call on client_socket has succeeded
Used(M, client_socket) ==
    [M EXCEPT !.breaks[client_socket] = IF @ = Never THEN @ ELSE @ - 1]

\* socket.send: raises on a socket the server closed and on a broken connection
send_message(M, client_socket, message) ==
    IF M.exc # "none" THEN M
    ELSE IF Raises(M, client_socket)
         THEN [M EXCEPT !.exc = "OSError"]
         ELSE [Used(M, client_socket) EXCEPT
                   !.wire[client_socket] = Append(@, message)]

\* the first user of the list with that socket; NoUser stands for ValueError
get_user(us, client_socket) ==
    IF \E i \in 1..Len(us) : us[i].client_socket = client_socket
    THEN us[CHOOSE i \in 1..Len(us) :
                /\ us[i].client_socket = client_socket
                /\ \A j \in 1..(i - 1) : us[j].client_socket # client_socket]
    ELSE NoUser

\* the replay takes the name from the user that holds the sender's socket now
RECURSIVE history_from_live_name(_, _, _)
history_from_live_name(M, client_socket, i) ==
    IF i > Len(M.sent) THEN M
    ELSE history_from_live_name(
             send_message(
                 M, client_socket,
                 ChatLine(get_user(M.users,
                                   M.sent[i].sender.client_socket).name,
                          M.sent[i].body)),
             client_socket, i + 1)

RECURSIVE history_from(_, _, _)
history_from(M, client_socket, i) ==
    IF i > Len(M.sent) THEN M
    ELSE history_from(
             send_message(M, client_socket,
                          ChatLine(M.sent[i].sender.name, M.sent[i].body)),
             client_socket, i + 1)

\* the replay starts at the second message
send_message_history_from_second(M, client_socket) ==
    history_from(M, client_socket, 2)

send_message_history(M, client_socket) == history_from(M, client_socket, 1)

\* users.remove(user): the first equal element leaves; ValueError is swallowed
del_user(us, user) ==
    IF \E i \in 1..Len(us) : us[i] = user
    THEN LET k == CHOOSE i \in 1..Len(us) :
                      us[i] = user /\ \A j \in 1..(i - 1) : us[j] # user
         IN  SubSeq(us, 1, k - 1) \o SubSeq(us, k + 1, Len(us))
    ELSE us

\* the name is put in the list whether it is there or not
return_name_unguarded(names, name) == <<name>> \o names

\* the name is not put back
return_name_lost(names, name) == names

\* names.append(name) instead of names.insert(0, name)
return_name_back(names, name) ==
    IF name \in Range(names) THEN names ELSE Append(names, name)

return_name(names, name) ==
    IF name \in Range(names) THEN names ELSE <<name>> \o names

\* selector.unregister then socket.close.  unregister looks the socket up by
\* its descriptor, and for a closed socket (descriptor -1) by identity among
\* the registered keys: KeyError for an open socket that is not registered,
\* ValueError for a closed one that is not registered.
unsubscribe_socket(M, client_socket) ==
    IF M.exc # "none" THEN M
    ELSE IF client_socket \in M.selector
         THEN [M EXCEPT !.selector = @ \ {client_socket},
                        !.closed = @ \cup {client_socket}]
         ELSE IF client_socket \in M.closed
              THEN [M EXCEPT !.exc = "ValueError"]
              ELSE [M EXCEPT !.exc = "KeyError"]

disconnect_socket(M, client_socket) ==
    LET user == get_user(M.users, client_socket)
        M1 == IF user = NoUser THEN M
              ELSE [M EXCEPT !.names = return_name(@, user.name),
                             !.users = del_user(@, user)]
    IN  unsubscribe_socket(M1, client_socket)

\* socket.close() of a rejected connection
close_socket(M, client_socket) ==
    IF M.exc # "none" THEN M
    ELSE [M EXCEPT !.closed = @ \cup {client_socket}]

\* _get_message_selector.register(client_socket, EVENT_READ, data=handler),
\* the handler being a new generator _get_message(client_socket)
register_socket(M, client_socket) ==
    IF M.exc # "none" THEN M
    ELSE [M EXCEPT !.selector = @ \cup {client_socket},
                   !.handlers[client_socket] = "created"]

\* client_socket.getpeername() for the log line that ends a join
getpeername(M, client_socket) ==
    IF M.exc # "none" THEN M
    ELSE IF Raises(M, client_socket)
         THEN [M EXCEPT !.exc = "OSError"]
         ELSE Used(M, client_socket)

\* the socket is registered before the greeting and the replay are written
accept_connection_subscribe_first(M) ==
    LET client_socket == M.accepted + 1
        M0 == [M EXCEPT !.accepted = client_socket]
    IN  IF ~ check_free_positions(M0.names)
        THEN close_socket(send_message(M0, client_socket, FullNotice),
                          client_socket)
        ELSE LET made == create_user(M0.names, client_socket)
                 M1 == [M0 EXCEPT !.names = made.names,
                                  !.users = Append(@, made.user)]
                 M2 == register_socket(M1, client_socket)
                 M3 == send_message(M2, client_socket,
                                    Greeting(made.user.name))
                 M4 == send_message_history(M3, client_socket)
             IN  getpeername(M4, client_socket)

\* One turn of the loop of _accept_connection: from the accept after a yield
\* to the next yield.
accept_connection(M) ==
    LET client_socket == M.accepted + 1
        M0 == [M EXCEPT !.accepted = client_socket]
    IN  IF ~ check_free_positions(M0.names)
        THEN close_socket(send_message(M0, client_socket, FullNotice),
                          client_socket)
        ELSE LET made == create_user(M0.names, client_socket)
                 M1 == [M0 EXCEPT !.names = made.names,
                                  !.users = Append(@, made.user)]
                 M2 == send_message(M1, client_socket,
                                    Greeting(made.user.name))
                 M3 == send_message_history(M2, client_socket)
             IN  getpeername(register_socket(M3, client_socket),
                             client_socket)

\* the loop over users stops before the last user
RECURSIVE send_to_users_but_last(_, _, _)
send_to_users_but_last(M, line, i) ==
    IF i >= Len(M.users) THEN M
    ELSE send_to_users_but_last(
             send_message(M, M.users[i].client_socket, line), line, i + 1)

\* for user_in_list in users: send_message(user_in_list.client_socket, line)
RECURSIVE send_to_users(_, _, _)
send_to_users(M, line, i) ==
    IF i > Len(M.users) THEN M
    ELSE send_to_users(send_message(M, M.users[i].client_socket, line),
                       line, i + 1)

\* the message is put in front of the list
append_message_front(sent, message) == <<message>> \o sent

\* sent_messages.append(message)
append_message(sent, message) == Append(sent, message)

\* a return statement of a generator: StopIteration leaves next()
generator_return(M) ==
    IF M.exc # "none" THEN M ELSE [M EXCEPT !.exc = "StopIteration"]

\* One turn of the loop of _get_message: from the recv after a yield to the
\* next yield or to the return.  recv raises on a socket the server closed
\* and on a broken connection with nothing left to read, returns b"" on a
\* closed connection with nothing left to read, and a chunk otherwise.
get_message(M, client_socket) ==
    IF client_socket \in M.closed
       \/ (M.inbox[client_socket] = <<>> /\ Raises(M, client_socket))
    THEN [M EXCEPT !.exc = "OSError"]
    ELSE IF M.inbox[client_socket] = <<>>
    THEN generator_return(disconnect_socket(M, client_socket))
    ELSE LET message_str == Head(M.inbox[client_socket])
             M0 == [M EXCEPT !.inbox[client_socket] = Tail(@)]
             user == get_user(M0.users, client_socket)
         IN  IF user = NoUser
             THEN generator_return(disconnect_socket(M0, client_socket))
             ELSE send_to_users(
                      [M0 EXCEPT !.sent = append_message(
                                              @, [body |-> message_str,
                                                  sender |-> user])],
                      ChatLine(user.name, message_str), 1)

\* next(accept): the first call runs the generator to its first yield, a call
\* on a finished generator raises StopIteration, an exception finishes it.
next_accept(M) ==
    IF M.accept = "created" THEN [M EXCEPT !.accept = "suspended"]
    ELSE IF M.accept = "finished" THEN [M EXCEPT !.exc = "StopIteration"]
    ELSE LET R == accept_connection(M)
         IN  IF R.exc = "none" THEN R ELSE [R EXCEPT !.accept = "finished"]

\* next(get_message) for the generator of client_socket
next_get_message(M, client_socket) ==
    IF M.handlers[client_socket] = "created"
    THEN [M EXCEPT !.handlers[client_socket] = "suspended"]
    ELSE IF M.handlers[client_socket] = "finished"
    THEN [M EXCEPT !.exc = "StopIteration"]
    ELSE LET R == get_message(M, client_socket)
         IN  IF R.exc = "none" THEN R
             ELSE [R EXCEPT !.handlers[client_socket] = "finished"]

\* ------------------------------------------------- what a call has done
\* The name of what next(accept) does in state M.
accept_op(M) ==
    IF M.accept = "created" THEN "prime_accept"
    ELSE IF M.accept = "finished" THEN "stop"
    ELSE IF check_free_positions(M.names) THEN "join" ELSE "reject"

\* The name of what next(get_message) does in state M for client_socket.
read_op(M, client_socket) ==
    IF M.handlers[client_socket] = "created" THEN "prime_read"
    ELSE IF M.handlers[client_socket] = "finished" THEN "stop"
    ELSE IF client_socket \in M.closed
            \/ (M.inbox[client_socket] = <<>> /\ Raises(M, client_socket))
    THEN "recv_error"
    ELSE IF M.inbox[client_socket] = <<>> THEN "eof"
    ELSE IF get_user(M.users, client_socket) = NoUser THEN "lost"
    ELSE "message"

\* The program's variables after a call that ended in R.
Becomes(R) ==
    /\ _names' = R.names
    /\ users' = R.users
    /\ sent_messages' = R.sent
    /\ accept' = R.accept
    /\ handlers' = R.handlers
    /\ selector' = R.selector
    /\ closed' = R.closed
    /\ accepted' = R.accepted
    /\ inbox' = R.inbox
    /\ wire' = R.wire
    /\ raised' = R.exc

\* What is kept of a call for the properties: the History Log length at a
\* join, the runs of _disconnect_socket, the name released last and, at a
\* join, the name given and the pool it was taken from.
Noted(op, client_socket) ==
    /\ joined_at' =
           IF op = "join"
           THEN [h \in DOMAIN joined_at \cup {client_socket} |->
                     IF h = client_socket THEN Len(sent_messages)
                     ELSE joined_at[h]]
           ELSE joined_at
    /\ calls' = calls + 1
    /\ leaves' = IF op \in {"eof", "lost", "disconnect"}
                 THEN [leaves EXCEPT ![client_socket] = @ + 1]
                 ELSE leaves
    /\ last_released' =
           IF op = "join" THEN ""
           ELSE IF op \in {"eof", "lost", "disconnect"}
                   /\ get_user(users, client_socket) # NoUser
                THEN get_user(users, client_socket).name
                ELSE last_released
    /\ reuse' = IF op = "join"
                THEN [sock |-> client_socket, released |-> last_released,
                      given |-> get_user(users', client_socket).name,
                      pool |-> _names]
                ELSE reuse

\* a socket select() reports: something to read, or the end of the stream
Readable(client_socket) ==
    inbox[client_socket] # <<>> \/ peer[client_socket] # "open"

\* ------------------------------------------------------ initial state
\* The module loaded and the __main__ block run up to event_loop(): the accept
\* generator made and registered for server_socket, nobody connected.
Init ==
    /\ _names = InitialNames
    /\ users = <<>>
    /\ sent_messages = <<>>
    /\ accept = "created"
    /\ handlers = [h \in Sockets |-> "none"]
    /\ selector = {}
    /\ closed = {}
    /\ accepted = 0
    /\ pc = "running"
    /\ raised = "none"
    /\ connected = 0
    /\ peer = [h \in Sockets |-> "open"]
    /\ inbox = [h \in Sockets |-> <<>>]
    /\ wire = [h \in Sockets |-> <<>>]
    /\ sends = 0
    /\ reuse = [sock |-> ServerSocket, released |-> "", given |-> "",
                pool |-> <<>>]
    /\ joined_at = [h \in {} |-> 0]
    /\ leaves = [h \in Sockets |-> 0]
    /\ calls = 0
    /\ last_released = ""

\* --------------------------------------------------------- the clients
\* The clients act while the server process lives and on connections the
\* server has not closed: what they do otherwise reaches no code of the server.
Running == pc # "crashed"

Drops == Cardinality({h \in Sockets : peer[h] # "open"})

\* a client connects once the backlog of server_socket is empty: its connection
\* waits there
Connect ==
    /\ Running
    /\ connected < MaxConnections
    /\ connected = accepted
    /\ connected' = connected + 1
    /\ UNCHANGED <<prog, loop, peer, sends, ghost>>

\* a client that has joined sends a chunk, once the server has read the one
\* before (what a client sends earlier waits in the socket, and is read as if
\* sent just after the join)
Send(h) ==
    /\ Running
    /\ h \in selector
    /\ peer[h] = "open"
    /\ sends < MaxSends
    /\ sends < Len(Bodies)
    /\ inbox[h] = <<>>
    /\ sends' = sends + 1
    /\ inbox' = [inbox EXCEPT ![h] = Append(@, Bodies[sends'])]
    /\ UNCHANGED <<_names, users, sent_messages, accept, handlers, selector,
                   closed, accepted, raised, wire, loop, connected, peer,
                   ghost>>

\* a client leaves: it closes its connection, or the connection is reset;
\* what it sent and the server has not read stays readable
Leave(h) ==
    /\ Running
    /\ h \in 1..connected
    /\ h \notin closed
    /\ peer[h] = "open"
    /\ Drops < MaxDrops
    /\ peer' = [peer EXCEPT ![h] = "gone"]
    /\ UNCHANGED <<prog, loop, connected, sends, ghost>>

UserSockets(us) == {us[i].client_socket : i \in 1..Len(us)}

\* What one call can find of the connections, for a call that makes at most
\* ops I/O calls on each of the sockets touched and none on another: only a
\* connection the client has left is found broken, at any of these calls.
Breakages(touched, ops) ==
    LET left == {h \in touched : peer[h] = "gone"}
    IN  {[h \in Sockets |-> IF h \in left THEN b[h] ELSE Never] :
             b \in [left -> (0..(ops - 1)) \cup {Never}]}

Clients ==
    \/ Connect
    \/ \E h \in Sockets : Send(h)
    \/ \E h \in Sockets : Leave(h)

\* ------------------------------------------------------ the event loop
\* A turn of event_loop calls the handler of server_socket if the select on
\* _connection_selector reports it, then the handler of every client socket
\* the select on _get_message_selector reports.  The model has one step per
\* handler call and lets the ready keys be served in any order: the turns
\* restrict that order and nothing else.  An exception that leaves a handler
\* leaves event_loop, and the process ends.

\* connection_keys holds server_socket (a connection waits in the backlog):
\* next(accept) is called
AcceptDispatch(breaks) ==
    /\ pc = "running"
    /\ calls < MaxDispatches
    /\ accepted < connected
    /\ LET M == [TheState EXCEPT !.breaks = breaks]
           R == next_accept(M)
       IN  /\ Becomes(R)
           /\ Noted(accept_op(M), accepted + 1)
           /\ pc' = IF R.exc = "none" THEN "running" ELSE "crashed"
    /\ UNCHANGED env

\* get_message_keys holds the key of client socket h: next(get_message) is
\* called for its generator
ReadDispatch(h, breaks) ==
    /\ pc = "running"
    /\ calls < MaxDispatches
    /\ h \in selector
    /\ Readable(h)
    /\ LET M == [TheState EXCEPT !.breaks = breaks]
           R == next_get_message(M, h)
       IN  /\ Becomes(R)
           /\ Noted(read_op(M, h), h)
           /\ pc' = IF R.exc = "none" THEN "running" ELSE "crashed"
    /\ UNCHANGED env

event_loop ==
    \/ \E breaks \in Breakages({accepted + 1} \cap Sockets,
                                Len(sent_messages) + 2) :
           AcceptDispatch(breaks)
    \/ \E h \in Sockets :
           \E breaks \in Breakages({h} \cup UserSockets(users), 1) :
               ReadDispatch(h, breaks)

Next == Clients \/ event_loop

\* The program: the clients and the event loop.
Spec == Init /\ [][Next]_vars

\* The program under fair polling.  select is level-triggered and every pass
\* of event_loop calls the handler of every key it reports, so a handler
\* that stays ready while the loop runs is called.
AcceptServed ==
    \E breaks \in Breakages({accepted + 1} \cap Sockets,
                             Len(sent_messages) + 2) :
        AcceptDispatch(breaks)

ReadServed(h) ==
    \E breaks \in Breakages({h} \cup UserSockets(users), 1) :
        ReadDispatch(h, breaks)

FairSpec ==
    /\ Spec
    /\ WF_vars(AcceptServed)
    /\ \A h \in Sockets : WF_vars(ReadServed(h))

\* ------------------------------------------- the handlers called directly
\* The same handlers and _disconnect_socket called by a caller that goes on
\* after an exception has left a call, as a test of the handlers does.  The
\* event loop does not run, and no I/O on a connection raises: a client that
\* leaves has closed its connection in order.

CallAccept ==
    /\ calls < MaxCalls
    /\ accept = "suspended" => accepted < connected
    /\ Becomes(next_accept(TheState))
    /\ Noted(accept_op(TheState), accepted + 1)
    /\ UNCHANGED <<loop, env>>

CallGetMessage(h) ==
    /\ calls < MaxCalls
    /\ h \in selector
    /\ handlers[h] = "suspended" => Readable(h)
    /\ Becomes(next_get_message(TheState, h))
    /\ Noted(read_op(TheState, h), h)
    /\ UNCHANGED <<loop, env>>

CallDisconnect(h) ==
    /\ calls < MaxCalls
    /\ h \in 1..accepted
    /\ Becomes(disconnect_socket(TheState, h))
    /\ Noted("disconnect", h)
    /\ UNCHANGED <<loop, env>>

NextCalls ==
    \/ Clients
    \/ CallAccept
    \/ \E h \in Sockets : CallGetMessage(h)
    \/ \E h \in Sockets : CallDisconnect(h)

SpecCalls == Init /\ [][NextCalls]_vars

\* ------------------------------------------------ sessions that follow one another
\* The handlers and _disconnect_socket called directly, as above, by a
\* caller that calls a read handler when a chunk waits and ends live
\* sessions with _disconnect_socket; the clients connect and send.  Names go
\* round the pool here: a session is given the name of one that has left.

ReuseAccept ==
    /\ calls < MaxReuseCalls
    /\ accept = "suspended" => accepted < connected
    /\ Becomes(next_accept(TheState))
    /\ Noted(accept_op(TheState), accepted + 1)
    /\ UNCHANGED <<loop, env>>

ReuseGetMessage(h) ==
    /\ calls < MaxReuseCalls
    /\ h \in selector
    /\ handlers[h] = "suspended" => inbox[h] # <<>>
    /\ Becomes(next_get_message(TheState, h))
    /\ Noted(read_op(TheState, h), h)
    /\ UNCHANGED <<loop, env>>

ReuseDisconnect(h) ==
    /\ calls < MaxReuseCalls
    /\ h \in selector
    /\ Becomes(disconnect_socket(TheState, h))
    /\ Noted("disconnect", h)
    /\ UNCHANGED <<loop, env>>

NextReuse ==
    \/ Connect
    \/ \E h \in Sockets : Send(h)
    \/ ReuseAccept
    \/ \E h \in Sockets : ReuseGetMessage(h)
    \/ \E h \in Sockets : ReuseDisconnect(h)

SpecReuse == Init /\ [][NextReuse]_vars

\* ============================================================ the claims
\* the chat line of the i-th message of the History Log
HistoryLine(i) == ChatLine(sent_messages[i].sender.name, sent_messages[i].body)

\* a connection was turned away: accepted, and no session was ever made for it
Rejected(h) == h \in 1..accepted /\ h \notin DOMAIN joined_at

\* C1 - Capacity invariant: in every state between handler calls the number
\* of names in the Name Pool plus the number of sessions in the registry is
\* the configured capacity (4).
C1_CapacityInvariant == Len(_names) + Len(users) = count_of_clients

\* C1's case: joins, a rejection, a message and a disconnect have happened.
C1_Witness ==
    /\ \E h \in Sockets : Rejected(h)
    /\ \E h \in Sockets : leaves[h] >= 1
    /\ Len(sent_messages) >= 1
    /\ Len(users) >= 1

\* C2 - Name uniqueness: no two sessions of the registry have the same name,
\* also after names have been released and given again.
C2_NameUniqueness ==
    \A i, j \in 1..Len(users) : i # j => users[i].name # users[j].name

\* C2's case: the last session that joined was given the name released
\* before it, and other sessions are in the registry with it.
C2_Witness ==
    /\ reuse.released # ""
    /\ reuse.given = reuse.released
    /\ Len(users) >= 2
    /\ get_user(users, reuse.sock) # NoUser

\* C3 - A zero-length read is not fatal: once the leave procedure has run for
\* a handle, the event loop is still running.
C3_DisconnectNotFatal ==
    (\E h \in Sockets : leaves[h] >= 1) => pc = "running"

\* C4 - Broadcast fan-out: when a chunk read from joined client A is
\* processed, the line "<A's name>:<body>" is written to every other session
\* of the registry, at most once to A, with A's name of that moment, and to
\* no handle that is not in the registry.
C4_BroadcastFanOut ==
    [][Len(sent_messages') > Len(sent_messages) =>
         LET m == sent_messages'[Len(sent_messages')]
             A == m.sender.client_socket
             line == ChatLine(m.sender.name, m.body)
         IN  /\ m.sender = get_user(users, A)
             /\ \A h \in Sockets :
                    IF h = A
                    THEN wire'[h] \in {wire[h], Append(wire[h], line)}
                    ELSE IF h \in UserSockets(users)
                    THEN wire'[h] = Append(wire[h], line)
                    ELSE wire'[h] = wire[h]]_vars

\* C5 - Replay completeness: a session that joined when N messages were in
\* the History Log has been written, after its greeting, these N messages in
\* History Log order before anything else.
C5_ReplayCompleteness ==
    \A h \in DOMAIN joined_at :
        (handlers[h] # "none" \/ Len(wire[h]) > 1 + joined_at[h]) =>
            /\ Len(wire[h]) >= 1 + joined_at[h]
            /\ \A i \in 1..joined_at[h] : wire[h][1 + i] = HistoryLine(i)

\* C5's case: a session joined after at least one message, and has since
\* been written a message read after it joined.
C5_Witness ==
    \E h \in DOMAIN joined_at :
        /\ joined_at[h] >= 1
        /\ Len(wire[h]) > 1 + joined_at[h]
        /\ Len(sent_messages) > joined_at[h]

\* C6 - Broadcast failure isolation: in a broadcast every session of the
\* registry is written the line and stays, or its write failed and it has
\* left (out of the registry, unsubscribed); the server keeps running.
C6_BroadcastFailureIsolated ==
    [][Len(sent_messages') > Len(sent_messages) =>
         LET m == sent_messages'[Len(sent_messages')]
             line == ChatLine(m.sender.name, m.body)
         IN  /\ pc' = "running"
             /\ \A i \in 1..Len(users) :
                    LET h == users[i].client_socket
                    IN  \/ /\ wire'[h] = Append(wire[h], line)
                           /\ get_user(users', h) = users[i]
                        \/ /\ wire'[h] = wire[h]
                           /\ get_user(users', h) = NoUser
                           /\ h \notin selector']_vars

\* C7 - Full-server rejection: a connection accepted while the Name Pool is
\* empty is written exactly the notice and closed; no session is made, the
\* handle is not subscribed, the pool and the registry are unchanged.
C7_FullServerRejection ==
    [][(accepted' = accepted + 1 /\ _names = <<>>) =>
         /\ wire'[accepted'] = <<FullNotice>>
         /\ accepted' \in closed'
         /\ accepted' \notin selector'
         /\ get_user(users', accepted') = NoUser
         /\ users' = users
         /\ _names' = _names]_vars

\* C8 - Join atomicity: a connection accepted while a name is free ends
\* fully joined (in the registry, greeted, history replayed, subscribed) or
\* leaves no trace (pool and registry as before, not subscribed).
C8_JoinAtomic ==
    [][(accepted' = accepted + 1 /\ _names # <<>>) =>
         LET h == accepted'
             u == get_user(users', h)
         IN  \/ /\ u # NoUser
                /\ h \in selector'
                /\ Len(wire'[h]) = 1 + Len(sent_messages)
                /\ wire'[h][1] = Greeting(u.name)
                /\ \A i \in 1..Len(sent_messages) :
                       wire'[h][1 + i] = HistoryLine(i)
             \/ /\ u = NoUser
                /\ h \notin selector'
                /\ users' = users
                /\ _names' = _names]_vars

\* C9 - Leave idempotence: a second run of _disconnect_socket for a handle
\* raises nothing and leaves the Name Pool and the registry as it found them.
C9_LeaveIdempotent ==
    [][\A h \in Sockets :
           (leaves[h] >= 1 /\ leaves'[h] = leaves[h] + 1) =>
               /\ raised' = "none"
               /\ _names' = _names
               /\ users' = users]_vars

\* C10 as claimed - the name a leaving session released is the name given to
\* the next session that joins.
C10_ReleasedNameGivenNext ==
    reuse.released # "" => reuse.given = reuse.released

\* C10 as amended - a released name goes to the front of the Name Pool and a
\* joining session is given the name at the back and greeted with it: the
\* name released last is the one given next exactly when it was alone in the
\* pool.
C10_GivenFromBack ==
    reuse.given # "" =>
        /\ reuse.given = reuse.pool[Len(reuse.pool)]
        /\ wire[reuse.sock] # <<>>
        /\ wire[reuse.sock][1] = Greeting(reuse.given)
        /\ reuse.released # "" =>
               /\ reuse.pool[1] = reuse.released
               /\ reuse.given = reuse.released <=> Len(reuse.pool) = 1

\* C10's case: a session joined after a release while other names were free,
\* and was not given the released name.
C10_Witness ==
    /\ reuse.released # ""
    /\ Len(reuse.pool) >= 2
    /\ reuse.given # reuse.released

\* C11 - History append-only: every step leaves sent_messages unchanged or
\* extends it at the end by one message (so an earlier log is a prefix of
\* every later one), and a step that accepts a connection or runs the leave
\* procedure leaves it unchanged.
C11_HistoryAppendOnly ==
    [][/\ \/ sent_messages' = sent_messages
          \/ /\ Len(sent_messages') = Len(sent_messages) + 1
             /\ SubSeq(sent_messages', 1, Len(sent_messages)) = sent_messages
       /\ (accepted' # accepted \/ leaves' # leaves) =>
              sent_messages' = sent_messages]_vars

\* C11's case: two messages are in the log, a session joined after the
\* first, and a session has left.
C11_Witness ==
    /\ Len(sent_messages) >= 2
    /\ \E h \in DOMAIN joined_at : joined_at[h] >= 1
    /\ \E h \in Sockets : leaves[h] >= 1

\* the call of this step was next(get_message) for h and its recv raised:
\* the generator of h ended with OSError before a message was appended
ReadRaised(h) ==
    /\ handlers[h] = "suspended"
    /\ handlers'[h] = "finished"
    /\ raised' = "OSError"
    /\ sent_messages' = sent_messages

\* C12 - A read error triggers the leave procedure: after a call whose recv
\* on a client socket raised, the socket is unsubscribed and closed, its user
\* is out of users, its name is back in _names, and the event loop is still
\* running.
C12_ReadErrorLeaves ==
    [][\A h \in Sockets :
           ReadRaised(h) =>
               /\ h \notin selector'
               /\ h \in closed'
               /\ get_user(users', h) = NoUser
               /\ get_user(users, h) # NoUser =>
                      get_user(users, h).name \in Range(_names')
               /\ pc' = "running"]_vars

IsPrefix(s, t) == Len(s) <= Len(t) /\ SubSeq(t, 1, Len(s)) = s

\* what a join writes to the socket of a user called name: the greeting,
\* then the History Log
JoinLines(name) ==
    <<Greeting(name)>> \o [i \in 1..Len(sent_messages) |-> HistoryLine(i)]

\* C13 - Join step order: a call that accepts a connection while a name is
\* free writes to the new socket, which had been written nothing, the
\* greeting with the name of the user just appended to users and then the
\* whole History Log, in this order, and the socket is subscribed only if
\* all of it was written; a socket that is not subscribed is written nothing
\* by any other call, so no broadcast reaches it before its replay.
C13_JoinStepOrder ==
    [][/\ (accepted' = accepted + 1 /\ _names # <<>>) =>
              LET h == accepted'
                  u == get_user(users', h)
              IN  /\ wire[h] = <<>>
                  /\ u # NoUser
                  /\ u \notin Range(users)
                  /\ IsPrefix(wire'[h], JoinLines(u.name))
                  /\ h \in selector' => wire'[h] = JoinLines(u.name)
       /\ accepted' = accepted =>
              \A h \in Sockets : h \notin selector => wire'[h] = wire[h]]_vars

\* C13's case: a session joined when two messages were in the log, and is
\* subscribed with its greeting and both of them written to it.
C13_Witness ==
    \E h \in selector :
        /\ h \in DOMAIN joined_at
        /\ joined_at[h] = 2
        /\ Len(wire[h]) = 3
        /\ \E g \in selector : g # h

\* the state of connection h in the state machine of a connection
Stage(us, sel, cl, acc, h) ==
    IF h > acc THEN "Pending"
    ELSE IF h \in UserSockets(us) /\ h \in sel /\ h \notin cl THEN "Joined"
    ELSE IF h \notin UserSockets(us) /\ h \notin sel /\ h \in cl
         THEN IF h \in DOMAIN joined_at THEN "Left" ELSE "Rejected"
    ELSE IF h \notin UserSockets(us) /\ h \notin sel THEN "Pending"
    ELSE "none"

\* C14 - Per-connection state machine: every connection is in one of the
\* states Pending, Joined, Left, Rejected; a step leaves its state alone or
\* moves it from Pending to Joined or Rejected or from Joined to Left; and a
\* closed socket is never subscribed (no handler is dispatched for it) and
\* never in users.
C14_ConnectionStateMachine ==
    [][\A h \in Sockets :
           LET before == Stage(users, selector, closed, accepted, h)
               after == Stage(users', selector', closed', accepted', h)
           IN  /\ after # "none"
               /\ \/ after = before
                  \/ before = "Pending" /\ after \in {"Joined", "Rejected"}
                  \/ before = "Joined" /\ after = "Left"
               /\ h \in closed' =>
                      h \notin selector' /\ h \notin UserSockets(users')]_vars

\* a user of users whose socket is subscribed
Live(h) == h \in UserSockets(users) /\ h \in selector

\* C15 - Consistent delivery order: in a state no write failure has led to,
\* what has been written to each live session after its greeting, replay and
\* broadcasts together, is the whole History Log: every message once, in the
\* order of the log.
C15_ConsistentDeliveryOrder ==
    raised # "OSError" =>
        \A h \in Sockets :
            Live(h) =>
                /\ wire[h] # <<>>
                /\ Tail(wire[h]) =
                       [i \in 1..Len(sent_messages) |-> HistoryLine(i)]

\* C15's case: two messages are in the log, one live session was there for
\* both and another joined between them, and no write has failed.
C15_Witness ==
    /\ raised # "OSError"
    /\ Len(sent_messages) = 2
    /\ \E g, h \in Sockets :
           /\ Live(g) /\ Live(h)
           /\ joined_at[g] = 0
           /\ joined_at[h] = 1

\* the call of this step did one server_socket.accept()
AcceptDone == accepted' = accepted + 1

\* the call of this step did one recv on h: it took a chunk, or found the
\* connection closed or broken and ended the generator of h
RecvDone(h) ==
    /\ handlers[h] = "suspended"
    /\ accepted' = accepted
    /\ IF inbox[h] # <<>>
       THEN inbox'[h] = Tail(inbox[h])
       ELSE handlers'[h] = "finished"

\* C16 - One I/O step per readiness dispatch: every handler call the event
\* loop makes does one accept (the handler of server_socket) or one recv on
\* its socket (the handler of a client socket), the first call of each
\* handler included.
C16_OneIOPerDispatch ==
    [][calls' = calls + 1 =>
           \/ AcceptDone
           \/ \E h \in selector : RecvDone(h)]_vars

\* C17 - Sender name captured at send time: the line replayed to a joining
\* session for a message of the log carries the name its sender was greeted
\* with and is the line that was broadcast to the sender when the message
\* was read, whatever has become of the sender and of its name since.
C17_SenderNameAtSendTime ==
    \A h \in DOMAIN joined_at :
        handlers[h] # "none" =>
            \A i \in 1..joined_at[h] :
                LET m == sent_messages[i]
                    A == m.sender.client_socket
                IN  /\ wire[A][1] = Greeting(m.sender.name)
                    /\ wire[h][1 + i] = wire[A][1 + i]
                    /\ wire[h][1 + i] = ChatLine(m.sender.name, m.body)

\* C17's case: a message was replayed to a session that joined after the
\* sender had left and that holds the sender's name.
C17_Witness ==
    \E h \in DOMAIN joined_at :
        \E i \in 1..joined_at[h] :
            LET m == sent_messages[i]
            IN  /\ handlers[h] # "none"
                /\ m.sender.client_socket # h
                /\ get_user(users, m.sender.client_socket) = NoUser
                /\ get_user(users, h).name = m.sender.name

UserNames(us) == {us[i].name : i \in 1..Len(us)}

\* C18 - Pool and sessions are disjoint: _names holds no name twice, no name
\* of _names is the name of a user of users, and return_name of a name that
\* is in _names gives _names back unchanged.
C18_PoolAndSessionsDisjoint ==
    /\ \A i, j \in 1..Len(_names) : i # j => _names[i] # _names[j]
    /\ Range(_names) \cap UserNames(users) = {}
    /\ \A name \in Range(_names) : return_name(_names, name) = _names

\* C18's case: sessions have left and others are live; the name released
\* last is in the pool with another name.
C18_Witness ==
    /\ last_released \in Range(_names)
    /\ Len(_names) >= 2
    /\ Len(users) >= 2
    /\ \E g, h \in Sockets : g # h /\ leaves[g] >= 1 /\ leaves[h] >= 1

\* the event loop has made all the handler calls of a run
Exhausted == calls = MaxDispatches

\* C19 - Progress under fair polling: a connection that waits to be accepted
\* is accepted, and a chunk a joined client has sent is read (and with it
\* appended to the log and broadcast), as long as the event loop has calls
\* left to make.
C19_Progress ==
    /\ (accepted < connected) ~> (accepted = connected \/ Exhausted)
    /\ \A h \in Sockets :
           (inbox[h] # <<>>) ~> (inbox[h] = <<>> \/ Exhausted)

\* C20 - Registry and subscriptions agree: the sockets registered on the
\* message selector are the sockets of the users of users, each of them is
\* open, and no two users have the same socket.
C20_RegistryMatchesSubscriptions ==
    /\ selector = UserSockets(users)
    /\ selector \cap closed = {}
    /\ \A i, j \in 1..Len(users) :
           i # j => users[i].client_socket # users[j].client_socket

=============================================================================
